---------------------------- MODULE Spec2Model ----------------------------
(***************************************************************************)
(* A model of zfs_rotational_check.py: the pipeline that fetches the       *)
(* status text of a ZFS pool, extracts the block devices from it, maps     *)
(* each one to its base disk and reads the disk's rotational flag.         *)
(*                                                                         *)
(* Strings the program inspects character by character (paths, the status  *)
(* text, the content of a flag file) are sequences of one-character        *)
(* strings.  The results of the Python functions are strings: "True",      *)
(* "False", "None", or the name of the failure that was raised.            *)
(***************************************************************************)
EXTENDS Integers, Sequences, FiniteSets, TLC

VARIABLES
    pc,            \* the position of the operation being modelled
    links,         \* file system: symbolic link path -> its target
    sysfs,         \* file system: existing rotational file -> its content
    partition,     \* base_disk_for_block_device: the argument
    once,          \* base_disk_for_block_device applied once
    twice,         \* ... and applied to its own result
    block_device,  \* is_rotational: the argument of the innermost call
    depth,         \* is_rotational: the number of recursive calls made
    lookups,       \* is_rotational: os.path.exists tests made
    resolves,      \* is_rotational: calls of base_disk_for_block_device
    visited,       \* is_rotational: the arguments of the outer calls
    text,          \* the decoded standard output of "zpool status"
    status_str,    \* block_devices_for_pool: the text being normalised
    devices,       \* block_devices_for_pool: the list returned
    pool,          \* zpool_status: the pool argument
    timeout,       \* zpool_status: the timeout argument (default -1)
    given,         \* zpool_status: whether the caller passed a timeout
    proc,          \* the subprocess: "none", "running", "exited", "killed"
    clock,         \* time units waited in proc.communicate
    beh,           \* what the subprocess does: run time, exit status, output
    spawned,       \* the command lines passed to subprocess.Popen
    result,        \* what zpool_status or is_rotational returned or raised
    disks,         \* zpool_is_pure_solid_state: base disks left to classify
    rotationals,   \* zpool_is_pure_solid_state: the values collected
    error,         \* the exception on its way to main
    ssd_only,      \* main: the value zpool_is_pure_solid_state returned
    out,           \* lines printed to standard output
    err,           \* lines printed to the error stream
    exitcode,      \* the exit status of the process (-1: still running)
    run,           \* which invocation of the program this is
    prev           \* what the previous invocation printed and returned

fsVars    == <<links, sysfs>>
baseVars  == <<partition, once, twice>>
rotVars   == <<block_device, depth, lookups, resolves, visited>>
parseVars == <<text, status_str, devices>>
fetchVars == <<pool, timeout, given, proc, clock, beh, spawned>>
mainVars  == <<disks, rotationals, error, ssd_only, out, err, exitcode, run,
               prev>>

(***************************************************************************)
(* Bounds of the model.                                                    *)
(***************************************************************************)
\* The longest run of trailing digits of a device name.
MaxDigits == 2
\* The interpreter's recursion limit (1000 frames in CPython), scaled down.
RecursionLimit == 4

(***************************************************************************)
(* Characters and strings.                                                 *)
(***************************************************************************)
Digits == {"0", "1", "2", "3", "4", "5", "6", "7", "8", "9"}

Last(s) == s[Len(s)]

Front(s) == SubSeq(s, 1, Len(s) - 1)

\* k copies of the character c
RECURSIVE Rep(_, _)
Rep(c, k) == IF k = 0 THEN <<>> ELSE <<c>> \o Rep(c, k - 1)

DEV == <<"/", "d", "e", "v", "/">>

(***************************************************************************)
(* base_disk_for_block_device                                              *)
(***************************************************************************)
\* os.path.normpath on an absolute path: runs of "/" become one "/", and a
\* trailing "/" is dropped (the root stays "/").
RECURSIVE Squeeze(_)
Squeeze(p) ==
    IF Len(p) <= 1 THEN p
    ELSE IF p[1] = "/" /\ p[2] = "/" THEN Squeeze(Tail(p))
    ELSE <<p[1]>> \o Squeeze(Tail(p))

normpath(p) ==
    LET s == Squeeze(p)
    IN  IF Len(s) > 1 /\ Last(s) = "/" THEN Front(s) ELSE s

\* os.path.realpath: the normalised path, with a symbolic link followed.
realpath(p) ==
    LET n == normpath(p)
    IN  IF n \in DOMAIN links THEN links[n] ELSE n

\* The longest prefix of s that does not end in a digit.
RECURSIVE DropTrailingDigits(_)
DropTrailingDigits(s) ==
    IF s # <<>> /\ Last(s) \in Digits THEN DropTrailingDigits(Front(s)) ELSE s

\* re.sub('[0-9]+$', '', s).  "$" matches at the end of the string and also
\* just before a newline that ends the string.
sub_trailing_number(s) ==
    IF s # <<>> /\ Last(s) = "\n"
        THEN DropTrailingDigits(Front(s)) \o <<"\n">>
        ELSE DropTrailingDigits(s)

base_disk_for_block_device(p) == sub_trailing_number(realpath(p))

(***************************************************************************)
(* is_rotational                                                           *)
(***************************************************************************)
\* os.path.basename: what follows the last "/".
RECURSIVE basename(_)
basename(p) ==
    IF p = <<>> \/ Last(p) = "/" THEN <<>>
    ELSE basename(Front(p)) \o <<Last(p)>>

SYSBLOCK == <<"/", "s", "y", "s", "/", "b", "l", "o", "c", "k", "/">>
QUEUEROT == <<"/", "q", "u", "e", "u", "e", "/", "r", "o", "t">>

\* f'/sys/block/{base_name}/queue/rotational'
rotational_file(p) == SYSBLOCK \o basename(p) \o QUEUEROT

\* os.path.exists
exists(f) == f \in DOMAIN sysfs

\* f_obj.read(1): the first character, or the empty string
read1(f) == IF sysfs[f] = <<>> THEN <<>> ELSE <<sysfs[f][1]>>

\* A mutation of flag_value: everything that is not '1' counts as '0'.
flag_value_lenient(content) ==
    IF content = <<"1">> THEN "True" ELSE "False"

\* Lines 36-41: the value returned for the character read, or the failure.
flag_value(content) ==
    IF content = <<"1">> THEN "True"
    ELSE IF content = <<"0">> THEN "False"
    ELSE "UnknownValue"

\* Line 29: the test that lets is_rotational call itself again.
made_progress(disk, dev) == disk # dev

\* is_rotational as a function: the value or failure of a call made at
\* recursion depth d.
RECURSIVE is_rotational(_, _)
is_rotational(dev, d) ==
    IF exists(rotational_file(dev))
        THEN flag_value(read1(rotational_file(dev)))
        ELSE LET disk == base_disk_for_block_device(dev)
             IN  IF made_progress(disk, dev)
                     THEN IF d >= RecursionLimit THEN "RecursionError"
                          ELSE is_rotational(disk, d + 1)
                     ELSE "NotFound"

(***************************************************************************)
(* block_devices_for_pool: the parsing of the status text                  *)
(***************************************************************************)
SP == " "
TAB == "\t"
NL == "\n"

\* The characters str.strip() removes that the model's texts can hold.
Whitespace == {SP, TAB, NL, "\r", "\f"}

Lower == {"a", "b", "c", "d", "e", "f", "g", "h", "i", "j", "k", "l", "m",
          "n", "o", "p", "q", "r", "s", "t", "u", "v", "w", "x", "y", "z"}
Upper == {"A", "B", "C", "D", "E", "F", "G", "H", "I", "J", "K", "L", "M",
          "N", "O", "P", "Q", "R", "S", "T", "U", "V", "W", "X", "Y", "Z"}

\* [a-zA-Z0-9/_-]
PathChars == Lower \cup Upper \cup Digits \cup {"/", "_", "-"}

DEGRADED == <<"D", "E", "G", "R", "A", "D", "E", "D">>
FAULTED  == <<"F", "A", "U", "L", "T", "E", "D">>
OFFLINE  == <<"O", "F", "F", "L", "I", "N", "E">>
ONLINE   == <<"O", "N", "L", "I", "N", "E">>
REMOVED  == <<"R", "E", "M", "O", "V", "E", "D">>
UNAVAIL  == <<"U", "N", "A", "V", "A", "I", "L">>

\* The alternatives of states_re, in the order the pattern tries them.
States == <<DEGRADED, FAULTED, OFFLINE, ONLINE, REMOVED, UNAVAIL>>

\* re.sub(c + '+', ' ', s): every run of the character c becomes one space.
\* Of a run only the first c is kept, and it is written as a space.
sub_runs(c, s) ==
    LET pairs == [i \in 1..Len(s) |-> <<s[i], IF i > 1 THEN s[i - 1] ELSE "">>]
        kept  == SelectSeq(pairs, LAMBDA p : ~(p[1] = c /\ p[2] = c))
    IN  [i \in 1..Len(kept) |-> IF kept[i][1] = c THEN SP ELSE kept[i][1]]

\* Line 78
sub_tabs(s) == sub_runs(TAB, s)

\* Line 81
sub_spaces(s) == sub_runs(SP, s)

\* str.split('\n')
RECURSIVE split(_, _)
split(s, sep) ==
    IF \A i \in 1..Len(s) : s[i] # sep THEN <<s>>
    ELSE LET i == CHOOSE j \in 1..Len(s) :
                     s[j] = sep /\ \A k \in 1..(j - 1) : s[k] # sep
         IN  <<SubSeq(s, 1, i - 1)>> \o split(SubSeq(s, i + 1, Len(s)), sep)

\* '\n'.join
RECURSIVE join(_, _)
join(ls, sep) ==
    IF ls = <<>> THEN <<>>
    ELSE IF Len(ls) = 1 THEN ls[1]
    ELSE ls[1] \o <<sep>> \o join(Tail(ls), sep)

\* str.strip()
RECURSIVE strip(_)
strip(l) ==
    IF l = <<>> THEN l
    ELSE IF l[1] \in Whitespace THEN strip(Tail(l))
    ELSE IF Last(l) \in Whitespace THEN strip(Front(l))
    ELSE l

\* Line 84
strip_lines(s) ==
    LET ls == split(s, NL)
    IN  join([i \in 1..Len(ls) |-> strip(ls[i])], NL)

\* The pieces of the pattern.  Each gets a position in s (0: the match has
\* already failed) and returns the position after what it matched, or 0.
\* No piece needs backtracking: what follows a repetition is a character the
\* repetition cannot match, and no state is a prefix of another.
Lit(s, i, w) ==
    IF i > 0 /\ i + Len(w) - 1 <= Len(s) /\ SubSeq(s, i, i + Len(w) - 1) = w
        THEN i + Len(w) ELSE 0

RECURSIVE Skip(_, _, _)
Skip(s, i, C) == IF i <= Len(s) /\ s[i] \in C THEN Skip(s, i + 1, C) ELSE i

\* [a-zA-Z0-9/_-]*
Star(s, i) == IF i > 0 THEN Skip(s, i, PathChars) ELSE 0

\* (DEGRADED|FAULTED|OFFLINE|ONLINE|REMOVED|UNAVAIL)
Alt(s, i) ==
    LET hits == {k \in 1..Len(States) : Lit(s, i, States[k]) > 0}
    IN  IF hits = {} THEN 0
        ELSE Lit(s, i, States[CHOOSE k \in hits : \A h \in hits : k <= h])

\* [0-9][0-9]*
Num(s, i) ==
    IF i > 0 /\ i <= Len(s) /\ s[i] \in Digits THEN Skip(s, i + 1, Digits) ELSE 0

\* "^" under re.MULTILINE
Bol(s, i) == i = 1 \/ s[i - 1] = NL

\* A mutation of Eol: the pattern has lost its "$".
EolMissing(s, i) == i > 0

\* "$" under re.MULTILINE
Eol(s, i) == i > 0 /\ (i = Len(s) + 1 \/ s[i] = NL)

\* Where the path (group 1) of a match starting at i ends, or 0.
PathEnd(s, i) == Star(s, Lit(s, i, DEV))

\* line_re matched at position i: the position after the match, or 0.
MatchEnd(s, i) ==
    IF ~Bol(s, i) THEN 0
    ELSE LET a == Lit(s, PathEnd(s, i), <<SP>>)
             b == Lit(s, Alt(s, a), <<SP>>)
             c == Lit(s, Num(s, b), <<SP>>)
             d == Lit(s, Num(s, c), <<SP>>)
             e == Num(s, d)
         IN  IF Eol(s, e) THEN e ELSE 0

\* Lines 94-97: reg.findall, keeping group 1 of every match.  The scan goes
\* left to right and a match is not sought inside an earlier match.
findall(s) ==
    LET starts == SelectSeq([i \in 1..Len(s) |-> i],
                            LAMBDA i : /\ MatchEnd(s, i) > 0
                                       /\ \A j \in 1..(i - 1) : MatchEnd(s, j) <= i)
    IN  [k \in 1..Len(starts) |-> SubSeq(s, starts[k], PathEnd(s, starts[k]) - 1)]

\* Lines 77-98 as one function of the status text.
parse_devices(s) == findall(strip_lines(sub_spaces(sub_tabs(s))))

(***************************************************************************)
(* The file systems and paths the model ranges over.                       *)
(***************************************************************************)
Letters == {"a", "b"}

\* a, a1, a11, b, b1, ... and d/1, d/11, ...: whole disks, partitions, and
\* a device whose final path component has digits only.
DeviceNames ==
    {<<l>> \o Rep("1", k) : l \in Letters, k \in 0..MaxDigits}
        \cup {<<"d", "/">> \o Rep("1", k) : k \in 1..MaxDigits}

DevicePaths == {DEV \o n : n \in DeviceNames}

\* What a symbolic link may point at: a whole disk or a partition.
LinkTargets == {DEV \o <<l>> \o Rep("1", k) : l \in Letters, k \in 0..1}

LinkSources == {DEV \o <<l>> : l \in Letters}

None == <<"N", "o", "n", "e">>

\* Every symbolic link points at a path that is not itself a link.
LinkTables ==
    {[s \in {t \in LinkSources : f[t] # None} |-> f[s]] :
        f \in {g \in [LinkSources -> LinkTargets \cup {None}] :
                 \A s \in LinkSources :
                    g[s] # None =>
                        /\ g[s] # s
                        /\ g[s] \in LinkSources => g[g[s]] = None}}

FlagContents == {<<>>, <<"0">>, <<"1">>, <<"1", "\n">>, <<"2">>, <<"0", "1">>}

SysNames == {<<l>> : l \in Letters}

SysTablesOf(C) ==
    {[f \in {rotational_file(n) : n \in {m \in SysNames : c[m] # None}} |->
            c[CHOOSE n \in SysNames : rotational_file(n) = f]] :
        c \in [SysNames -> C \cup {None}]}

SysTables == SysTablesOf(FlagContents)

\* The most lines a status text of SpecParse has.
MaxLines == 2

\* Field lists of lines that fit the device-table grammar ...
GoodFields ==
    { <<DEV \o <<"a">>, ONLINE, <<"0">>, <<"0">>, <<"0">>>>,
      <<DEV \o <<"b", "1">>, DEGRADED, <<"3">>, <<"0">>, <<"1">>>>,
      <<DEV, FAULTED, <<"0", "0">>, <<"1", "2">>, <<"7">>>> }

\* ... and of lines that do not: no /dev/ prefix, a counter missing, a counter
\* too many, an unknown state, a character no path has, text before the
\* path, a counter that is no number, a lone number, a header.
BadFields ==
    { <<<<"p", "o", "o", "l">>, ONLINE, <<"0">>, <<"0">>, <<"0">>>>,
      <<DEV \o <<"a">>, ONLINE, <<"0">>, <<"0">>>>,
      <<DEV \o <<"a">>, ONLINE, <<"0">>, <<"0">>, <<"0">>, <<"0">>>>,
      <<DEV \o <<"a">>, ONLINE \o <<"X">>, <<"0">>, <<"0">>, <<"0">>>>,
      <<DEV \o <<"a", ".", "b">>, ONLINE, <<"0">>, <<"0">>, <<"0">>>>,
      <<<<"x">>, DEV \o <<"a">>, ONLINE, <<"0">>, <<"0">>, <<"0">>>>,
      <<DEV \o <<"a">>, ONLINE, <<"0">>, <<"0">>, <<"x">>>>,
      <<<<"0">>>>,
      <<<<"N", "A", "M", "E">>, <<"S", "T", "A", "T", "E">>>> }

\* How a line is laid out: what precedes the fields, separates them and
\* follows them.
GoodStyles ==
    { [lead |-> <<>>, sep |-> <<SP>>, trail |-> <<>>],
      [lead |-> <<TAB>>, sep |-> <<TAB>>, trail |-> <<>>],
      [lead |-> <<SP, SP>>, sep |-> <<SP, SP, SP>>, trail |-> <<SP, "\r">>],
      [lead |-> <<>>, sep |-> <<SP, TAB>>, trail |-> <<TAB>>] }

BadStyles ==
    { [lead |-> <<>>, sep |-> <<SP>>, trail |-> <<>>],
      [lead |-> <<TAB>>, sep |-> <<TAB, TAB>>, trail |-> <<SP>>] }

RECURSIVE Joined(_, _)
Joined(fields, sep) ==
    IF fields = <<>> THEN <<>>
    ELSE IF Len(fields) = 1 THEN fields[1]
    ELSE fields[1] \o sep \o Joined(Tail(fields), sep)

Layout(fields, st) == st.lead \o Joined(fields, st.sep) \o st.trail

StatusLines ==
    {Layout(f, st) : f \in GoodFields, st \in GoodStyles}
        \cup {Layout(f, st) : f \in BadFields, st \in BadStyles}
        \cup {<<>>, DEV \o <<"a">> \o ONLINE \o <<SP, "0", SP, "0", SP, "0">>}

RECURSIVE SeqsUpTo(_, _)
SeqsUpTo(S, n) ==
    IF n = 0 THEN {<<>>}
    ELSE LET shorter == SeqsUpTo(S, n - 1)
         IN  shorter \cup {Append(q, e) : q \in shorter, e \in S}

StatusTexts == {join(ls, NL) : ls \in SeqsUpTo(StatusLines, MaxLines)}

(***************************************************************************)
(* zpool_status                                                            *)
(***************************************************************************)
\* The default of the timeout parameter (line 100).
NoTimeout == -1

\* The run time of a subprocess that never exits.
Never == -1

\* The longest a subprocess runs, and the longest the model lets a call wait.
MaxClock == 3

\* The largest timeout a caller passes.
MaxTimeout == 2

\* Output that is not valid UTF-8.
BadBytes == <<"BadBytes">>

\* A mutation of isinstance_str: the empty name is rejected too.
isinstance_nonempty_str(p) == p.isstr /\ p.name # <<>>

\* Line 112: isinstance(pool, str)
isinstance_str(p) == p.isstr

\* Line 120: whether communicate is given the timeout
uses_timeout(t) == t > 0

\* Line 125: proc.kill() ends a subprocess that is still running
after_kill(p) == IF p = "running" THEN "killed" ELSE p

\* Line 116
cmd_arr(p) == <<"zpool", "status", "-P", p.name>>

PoolValues ==
    { [isstr |-> FALSE, name |-> <<>>],
      [isstr |-> TRUE, name |-> <<>>],
      [isstr |-> TRUE, name |-> <<"t">>] }

FetchBehaviours ==
    [runtime : (0..MaxClock) \cup {Never}, rc : {0, 1},
     output : {Layout(f, st) : f \in GoodFields, st \in {[lead |-> <<>>, sep |-> <<SP>>, trail |-> <<>>]}}
                 \cup {BadBytes}]

(***************************************************************************)
(* zpool_is_pure_solid_state and main                                      *)
(***************************************************************************)
\* The most device lines a status text of Spec has.
MaxDevs == 2

Range(q) == {q[i] : i \in 1..Len(q)}

\* The orders list(set(...)) may give the elements of S.
Orders(S) ==
    {q \in [1..Cardinality(S) -> S] : \A i, j \in 1..Cardinality(S) : q[i] = q[j] => i = j}

\* The argument of the innermost call is_rotational(dev) makes.
RECURSIVE innermost(_, _)
innermost(dev, d) ==
    IF exists(rotational_file(dev)) THEN dev
    ELSE LET disk == base_disk_for_block_device(dev)
         IN  IF made_progress(disk, dev) /\ d < RecursionLimit
                 THEN innermost(disk, d + 1) ELSE dev

\* The exception is_rotational(dev) raises, with the file its message names.
failure(dev) ==
    IF is_rotational(dev, 0) = "RecursionError" THEN <<"RecursionError">>
    ELSE <<is_rotational(dev, 0), rotational_file(innermost(dev, 0))>>

\* A mutation of raises: a failed classification counts as a value.
raises_never(r) == FALSE

\* Line 157: a call of is_rotational that raises ends the list comprehension.
raises(r) == r \notin {"True", "False"}

\* A mutation of pure_solid_state: an empty list gives False.
pure_solid_state_nonempty(rots) ==
    IF rots = <<>> \/ "True" \in Range(rots) THEN "False" ELSE "True"

\* A mutation of pure_solid_state: only the first value is looked at.
pure_solid_state_first(rots) ==
    IF rots # <<>> /\ rots[1] = "True" THEN "False" ELSE "True"

\* Line 161: not True in rotationals
pure_solid_state(rots) == IF "True" \in Range(rots) THEN "False" ELSE "True"

\* Line 183
report(v) == <<"Pool contains only SSD: ", v>>

PoolDevices == {DEV \o <<"a">>, DEV \o <<"a", "1">>, DEV \o <<"b", "1">>}

TabStyle == [lead |-> <<TAB, SP, SP>>, sep |-> <<SP, SP>>, trail |-> <<>>]

\* The output of "zpool status -P" for a pool on the devices ps.
StatusOf(ps) ==
    join(<< <<"N", "A", "M", "E", SP, "S", "T", "A", "T", "E">>,
            <<TAB, "t", SP>> \o ONLINE \o <<SP, "0", SP, "0", SP, "0">> >>
         \o [i \in 1..Len(ps) |->
                Layout(<<ps[i], ONLINE, <<"0">>, <<"0">>, <<"0">>>>, TabStyle)],
         NL)

PoolBehaviours ==
    { [runtime |-> 0, rc |-> 1, output |-> <<>>],
      [runtime |-> 0, rc |-> 0, output |-> BadBytes],
      [runtime |-> Never, rc |-> 0, output |-> <<>>] }
        \cup {[runtime |-> 0, rc |-> 0, output |-> StatusOf(ps)] :
                 ps \in SeqsUpTo(PoolDevices, MaxDevs)}

PoolFlagContents == {<<>>, <<"0">>, <<"1">>}

Idle == <<>>

vars == <<pc, fsVars, baseVars, rotVars, parseVars, fetchVars, result,
          mainVars>>

baseIdle == partition = Idle /\ once = Idle /\ twice = Idle

rotIdle ==
    /\ block_device = Idle
    /\ depth = 0
    /\ lookups = 0
    /\ resolves = 0
    /\ visited = {}

parseIdle == text = Idle /\ status_str = Idle /\ devices = Idle

fetchIdle ==
    /\ pool = Idle
    /\ timeout = NoTimeout
    /\ given = FALSE
    /\ proc = "none"
    /\ clock = 0
    /\ beh = Idle
    /\ spawned = <<>>

mainIdle ==
    /\ disks = <<>>
    /\ rotationals = <<>>
    /\ error = Idle
    /\ ssd_only = "none"
    /\ out = <<>>
    /\ err = <<>>
    /\ exitcode = -1
    /\ run = 1
    /\ prev = Idle

(***************************************************************************)
(* SpecBase: base_disk_for_block_device applied to a path and then to its  *)
(* own result, in every file system of LinkTables.                         *)
(***************************************************************************)
InitBase ==
    /\ pc = "base"
    /\ links \in LinkTables
    /\ sysfs = <<>>
    /\ partition \in DevicePaths
    /\ once = Idle
    /\ twice = Idle
    /\ rotIdle
    /\ parseIdle
    /\ fetchIdle
    /\ mainIdle
    /\ result = "none"

BaseOnce ==
    /\ pc = "base"
    /\ once' = base_disk_for_block_device(partition)
    /\ pc' = "based"
    /\ UNCHANGED <<fsVars, partition, twice, rotVars, parseVars, fetchVars,
                   result, mainVars>>

BaseTwice ==
    /\ pc = "based"
    /\ twice' = base_disk_for_block_device(once)
    /\ pc' = "based2"
    /\ UNCHANGED <<fsVars, partition, once, rotVars, parseVars, fetchVars,
                   result, mainVars>>

NextBase == BaseOnce \/ BaseTwice

SpecBase == InitBase /\ [][NextBase]_vars

(***************************************************************************)
(* SpecRotational: one call of is_rotational, step by step.  A recursive   *)
(* call replaces block_device; what the outer frames do with the value     *)
(* (return it unchanged) needs no step of its own.                         *)
(***************************************************************************)
InitRotational ==
    /\ pc = "lookup"
    /\ links \in LinkTables
    /\ sysfs \in SysTables
    /\ baseIdle
    /\ block_device \in DevicePaths
    /\ depth = 0
    /\ lookups = 0
    /\ resolves = 0
    /\ visited = {}
    /\ parseIdle
    /\ fetchIdle
    /\ mainIdle
    /\ result = "none"

\* Lines 22-25: derive the flag file and test for it.
Lookup ==
    /\ pc = "lookup"
    /\ lookups' = lookups + 1
    /\ pc' = IF exists(rotational_file(block_device)) THEN "read" ELSE "resolve"
    /\ UNCHANGED <<fsVars, baseVars, block_device, depth, resolves, visited,
                   parseVars, fetchVars, result, mainVars>>

\* Lines 28-32: resolve the base disk; recurse on progress, fail otherwise.
Resolve ==
    /\ pc = "resolve"
    /\ resolves' = resolves + 1
    /\ LET disk == base_disk_for_block_device(block_device)
       IN  IF made_progress(disk, block_device)
               THEN IF depth >= RecursionLimit
                        THEN /\ result' = "RecursionError"
                             /\ pc' = "done"
                             /\ UNCHANGED <<block_device, depth, visited>>
                        ELSE /\ block_device' = disk
                             /\ depth' = depth + 1
                             /\ visited' = visited \cup {block_device}
                             /\ pc' = "lookup"
                             /\ UNCHANGED result
               ELSE /\ result' = "NotFound"
                    /\ pc' = "done"
                    /\ UNCHANGED <<block_device, depth, visited>>
    /\ UNCHANGED <<fsVars, baseVars, lookups, parseVars, fetchVars, mainVars>>

\* Lines 34-41: read one character of the flag file.
Read ==
    /\ pc = "read"
    /\ result' = flag_value(read1(rotational_file(block_device)))
    /\ pc' = "done"
    /\ UNCHANGED <<fsVars, baseVars, rotVars, parseVars, fetchVars, mainVars>>

NextRotational == Lookup \/ Resolve \/ Read

SpecRotational == InitRotational /\ [][NextRotational]_vars

(***************************************************************************)
(* SpecParse: lines 77-98 of block_devices_for_pool on every status text   *)
(* of StatusTexts, one statement per step.                                 *)
(***************************************************************************)
InitParse ==
    /\ pc = "tabs"
    /\ links = <<>>
    /\ sysfs = <<>>
    /\ baseIdle
    /\ rotIdle
    /\ text \in StatusTexts
    /\ status_str = text
    /\ devices = Idle
    /\ fetchIdle
    /\ mainIdle
    /\ result = "none"

\* Line 78
ParseTabs ==
    /\ pc = "tabs"
    /\ status_str' = sub_tabs(status_str)
    /\ pc' = "spaces"
    /\ UNCHANGED <<fsVars, baseVars, rotVars, text, devices, fetchVars,
                   result, mainVars>>

\* Line 81
ParseSpaces ==
    /\ pc = "spaces"
    /\ status_str' = sub_spaces(status_str)
    /\ pc' = "strip"
    /\ UNCHANGED <<fsVars, baseVars, rotVars, text, devices, fetchVars,
                   result, mainVars>>

\* Line 84
ParseStrip ==
    /\ pc = "strip"
    /\ status_str' = strip_lines(status_str)
    /\ pc' = "findall"
    /\ UNCHANGED <<fsVars, baseVars, rotVars, text, devices, fetchVars,
                   result, mainVars>>

\* Lines 87-98
ParseFindall ==
    /\ pc = "findall"
    /\ devices' = findall(status_str)
    /\ pc' = "parsed"
    /\ UNCHANGED <<fsVars, baseVars, rotVars, text, status_str, fetchVars,
                   result, mainVars>>

NextParse == ParseTabs \/ ParseSpaces \/ ParseStrip \/ ParseFindall

SpecParse == InitParse /\ [][NextParse]_vars

(***************************************************************************)
(* SpecFetch: one call of zpool_status, for every pool argument, every     *)
(* timeout (or none) and every behaviour of the subprocess.  The clock     *)
(* counts the time the call has waited in proc.communicate.                *)
(***************************************************************************)
InitFetch ==
    /\ pc = "call"
    /\ links = <<>>
    /\ sysfs = <<>>
    /\ baseIdle
    /\ rotIdle
    /\ parseIdle
    /\ pool \in PoolValues
    /\ given \in BOOLEAN
    /\ timeout \in (IF given THEN (-2)..MaxTimeout ELSE {NoTimeout})
    /\ proc = "none"
    /\ clock = 0
    /\ beh \in FetchBehaviours
    /\ spawned = <<>>
    /\ mainIdle
    /\ result = "none"

\* Lines 112-118: the type test, then subprocess.Popen.
FetchCall ==
    /\ pc = "call"
    /\ IF ~isinstance_str(pool)
           THEN /\ result' = "None"
                /\ pc' = "fetched"
                /\ UNCHANGED <<proc, spawned>>
           ELSE /\ spawned' = Append(spawned, cmd_arr(pool))
                /\ proc' = "running"
                /\ pc' = "communicate"
                /\ UNCHANGED result
    /\ UNCHANGED <<fsVars, baseVars, rotVars, parseVars, pool, timeout, given,
                   clock, beh, mainVars>>

\* Lines 120-123: time passes in proc.communicate while the subprocess runs;
\* with a timeout, no longer than the timeout.
Tick ==
    /\ pc = "communicate"
    /\ proc = "running"
    /\ clock < MaxClock
    /\ beh.runtime = Never \/ clock < beh.runtime
    /\ uses_timeout(timeout) => clock < timeout
    /\ clock' = clock + 1
    /\ UNCHANGED <<pc, fsVars, baseVars, rotVars, parseVars, pool, timeout,
                   given, proc, beh, spawned, result, mainVars>>

\* The subprocess exits when its run time is over.
ProcExit ==
    /\ proc = "running"
    /\ beh.runtime = clock
    /\ proc' = "exited"
    /\ UNCHANGED <<pc, fsVars, baseVars, rotVars, parseVars, pool, timeout,
                   given, clock, beh, spawned, result, mainVars>>

\* Lines 121, 123: proc.communicate returns once the subprocess has exited.
CommunicateReturns ==
    /\ pc = "communicate"
    /\ proc = "exited"
    /\ pc' = "returncode"
    /\ UNCHANGED <<fsVars, baseVars, rotVars, parseVars, fetchVars, result,
                   mainVars>>

\* Line 124: communicate raises TimeoutExpired when the timeout is over.
TimeoutExpired ==
    /\ pc = "communicate"
    /\ proc = "running"
    /\ uses_timeout(timeout)
    /\ clock = timeout
    /\ pc' = "kill"
    /\ UNCHANGED <<fsVars, baseVars, rotVars, parseVars, fetchVars, result,
                   mainVars>>

\* Line 125
Kill ==
    /\ pc = "kill"
    /\ proc' = after_kill(proc)
    /\ pc' = "raise"
    /\ UNCHANGED <<fsVars, baseVars, rotVars, parseVars, pool, timeout, given,
                   clock, beh, spawned, result, mainVars>>

\* Lines 126-127
RaiseTimeout ==
    /\ pc = "raise"
    /\ result' = "Timeout"
    /\ pc' = "fetched"
    /\ UNCHANGED <<fsVars, baseVars, rotVars, parseVars, fetchVars, mainVars>>

\* Lines 130-132
CheckReturncode ==
    /\ pc = "returncode"
    /\ IF beh.rc # 0
           THEN result' = "QueryFailed" /\ pc' = "fetched"
           ELSE pc' = "decode" /\ UNCHANGED result
    /\ UNCHANGED <<fsVars, baseVars, rotVars, parseVars, fetchVars, mainVars>>

\* Line 135
Decode ==
    /\ pc = "decode"
    /\ IF beh.output = BadBytes
           THEN result' = "UnicodeDecodeError" /\ UNCHANGED text
           ELSE result' = "Text" /\ text' = beh.output
    /\ pc' = "fetched"
    /\ UNCHANGED <<fsVars, baseVars, rotVars, status_str, devices, fetchVars,
                   mainVars>>

NextFetch ==
    \/ FetchCall
    \/ Tick
    \/ ProcExit
    \/ CommunicateReturns
    \/ TimeoutExpired
    \/ Kill
    \/ RaiseTimeout
    \/ CheckReturncode
    \/ Decode

SpecFetch == InitFetch /\ [][NextFetch]_vars

(***************************************************************************)
(* Spec: the program.  main passes the POOL argument to                    *)
(* zpool_is_pure_solid_state, which fetches the status with the default    *)
(* timeout, parses it, resolves and deduplicates the base disks and        *)
(* classifies them in the order list(set(...)) happens to give.  The       *)
(* program is then run a second time on the unchanged system.              *)
(***************************************************************************)
Init ==
    /\ pc = "main"
    /\ links \in LinkTables
    /\ sysfs \in SysTablesOf(PoolFlagContents)
    /\ baseIdle
    /\ rotIdle
    /\ parseIdle
    /\ pool = [isstr |-> TRUE, name |-> <<"t">>]
    /\ timeout = NoTimeout
    /\ given = FALSE
    /\ proc = "none"
    /\ clock = 0
    /\ beh \in PoolBehaviours
    /\ spawned = <<>>
    /\ mainIdle
    /\ result = "none"

\* Lines 177-182, 147-151, 70-73: the argument is a string by argparse's
\* type = str, so both type tests pass and zpool_status(pool) is called.
MainCall ==
    /\ pc = "main"
    /\ IF isinstance_str(pool)
           THEN pc' = "call" /\ UNCHANGED error
           ELSE pc' = "except" /\ error' = <<"InvalidArgument">>
    /\ UNCHANGED <<fsVars, baseVars, rotVars, parseVars, fetchVars, result,
                   disks, rotationals, ssd_only, out, err, exitcode, run,
                   prev>>

\* Lines 73-98: a failure of zpool_status propagates; None gives the empty
\* list; a text is parsed.
PoolParse ==
    /\ pc = "fetched"
    /\ IF result = "Text"
           THEN /\ devices' = parse_devices(text)
                /\ pc' = "disks"
                /\ UNCHANGED error
           ELSE IF result = "None"
           THEN /\ devices' = <<>>
                /\ pc' = "disks"
                /\ UNCHANGED error
           ELSE /\ error' = <<result>>
                /\ pc' = "except"
                /\ UNCHANGED devices
    /\ UNCHANGED <<fsVars, baseVars, rotVars, text, status_str, fetchVars,
                   result, disks, rotationals, ssd_only, out, err, exitcode,
                   run, prev>>

\* Lines 154-155: the base disks, deduplicated, in some order.
PoolDisks ==
    /\ pc = "disks"
    /\ disks' \in Orders({base_disk_for_block_device(d) : d \in Range(devices)})
    /\ pc' = "classify"
    /\ UNCHANGED <<fsVars, baseVars, rotVars, parseVars, fetchVars, result,
                   rotationals, error, ssd_only, out, err, exitcode, run,
                   prev>>

\* Line 157: the next element of the list comprehension.
PoolClassify ==
    /\ pc = "classify"
    /\ disks # <<>>
    /\ IF raises(is_rotational(Head(disks), 0))
           THEN /\ error' = failure(Head(disks))
                /\ pc' = "except"
                /\ UNCHANGED <<disks, rotationals>>
           ELSE /\ rotationals' = Append(rotationals, is_rotational(Head(disks), 0))
                /\ disks' = Tail(disks)
                /\ UNCHANGED <<pc, error>>
    /\ UNCHANGED <<fsVars, baseVars, rotVars, parseVars, fetchVars, result,
                   ssd_only, out, err, exitcode, run, prev>>

\* Lines 161, 182
PoolReturn ==
    /\ pc = "classify"
    /\ disks = <<>>
    /\ ssd_only' = pure_solid_state(rotationals)
    /\ pc' = "print"
    /\ UNCHANGED <<fsVars, baseVars, rotVars, parseVars, fetchVars, result,
                   disks, rotationals, error, out, err, exitcode, run, prev>>

\* Lines 183-184
MainPrint ==
    /\ pc = "print"
    /\ out' = Append(out, report(ssd_only))
    /\ exitcode' = 0
    /\ pc' = "exit"
    /\ UNCHANGED <<fsVars, baseVars, rotVars, parseVars, fetchVars, result,
                   disks, rotationals, error, ssd_only, err, run, prev>>

\* Lines 185-187
MainExcept ==
    /\ pc = "except"
    /\ err' = Append(err, error)
    /\ exitcode' = 1
    /\ pc' = "exit"
    /\ UNCHANGED <<fsVars, baseVars, rotVars, parseVars, fetchVars, result,
                   disks, rotationals, error, ssd_only, out, run, prev>>

\* The program is started again: the file system and what the subprocess
\* does are as before, everything else starts afresh.
Rerun ==
    /\ pc = "exit"
    /\ run = 1
    /\ prev' = [exitcode |-> exitcode, out |-> out, err |-> err]
    /\ run' = 2
    /\ pc' = "main"
    /\ text' = Idle
    /\ status_str' = Idle
    /\ devices' = Idle
    /\ proc' = "none"
    /\ clock' = 0
    /\ spawned' = <<>>
    /\ result' = "none"
    /\ disks' = <<>>
    /\ rotationals' = <<>>
    /\ error' = Idle
    /\ ssd_only' = "none"
    /\ out' = <<>>
    /\ err' = <<>>
    /\ exitcode' = -1
    /\ UNCHANGED <<fsVars, baseVars, rotVars, pool, timeout, given, beh>>

Next ==
    \/ MainCall
    \/ FetchCall
    \/ Tick
    \/ ProcExit
    \/ CommunicateReturns
    \/ CheckReturncode
    \/ Decode
    \/ PoolParse
    \/ PoolDisks
    \/ PoolClassify
    \/ PoolReturn
    \/ MainPrint
    \/ MainExcept
    \/ Rerun

Spec == Init /\ [][Next]_vars

(***************************************************************************)
(* Claims about base_disk_for_block_device and is_rotational.              *)
(***************************************************************************)
\* C3: base-disk resolution is idempotent: applied to its own result it
\* returns that result again, for every path and every file system layout.
C3_Idempotent == pc = "based2" => twice = once

\* C4: one call of the classifier looks the flag location up at most twice:
\* after one re-resolution it reads the flag or fails; it never re-resolves
\* (calls itself) a second time.
C4_AtMostOneRetry == lookups <= 2 /\ depth <= 1

\* C9: when the flag file exists, the first character read decides: '1' gives
\* true, '0' gives false, anything else (the empty read too) is the
\* unrecognised-flag failure; no value is returned for other content.
C9_FlagDecides ==
    LET f == rotational_file(block_device)
    IN  pc = "done" /\ exists(f) =>
          /\ sysfs[f] # <<>> /\ sysfs[f][1] = "1" => result = "True"
          /\ sysfs[f] # <<>> /\ sysfs[f][1] = "0" => result = "False"
          /\ sysfs[f] = <<>> \/ sysfs[f][1] \notin {"0", "1"} =>
                result = "UnknownValue"

\* An empty flag file was read and the call failed.
C9_Witness ==
    /\ pc = "done"
    /\ exists(rotational_file(block_device))
    /\ sysfs[rotational_file(block_device)] = <<>>
    /\ result = "UnknownValue"

\* C10: the chain of paths produced by repeated re-resolution never revisits
\* a path, so every call ends in a flag read or the not-found failure.
C10_NeverRevisits == block_device \notin visited /\ result # "RecursionError"

(***************************************************************************)
(* Claims about zpool_status.                                              *)
(***************************************************************************)
\* C5: whatever timeout value the caller passes (here: any value from zero
\* up), the call does not wait on a running subprocess beyond it; the timeout
\* failure comes after the subprocess has been ended and returns no text.
C5_AnyTimeoutBounds ==
    /\ given /\ timeout >= 0 /\ pc = "communicate" /\ proc = "running"
          => clock <= timeout
    /\ pc = "raise" \/ result = "Timeout" => proc # "running" /\ text = Idle

\* C6 as stated: a pool name that is not a non-empty string is rejected with
\* an invalid-argument failure, and no process is spawned.
C6_RejectsInvalid ==
    ~pool.isstr \/ pool.name = <<>> =>
        /\ spawned = <<>>
        /\ pc = "fetched" => result = "InvalidArgument"

\* C6 as amended: for a non-string the call spawns nothing and returns None,
\* raising nothing; every string, the empty one too, is passed to the
\* external command.
C6_NonStringGivesNone ==
    /\ ~pool.isstr =>
          /\ spawned = <<>>
          /\ proc = "none"
          /\ pc = "fetched" => result = "None"
    /\ pool.isstr /\ pc # "call" => spawned = <<cmd_arr(pool)>>
    /\ result # "InvalidArgument"

\* Both halves have happened: None for a non-string, a spawn for "".
C6_Witness ==
    \/ pc = "fetched" /\ ~pool.isstr /\ result = "None"
    \/ pc = "fetched" /\ pool.isstr /\ pool.name = <<>> /\ result = "Text"

(***************************************************************************)
(* Claims about zpool_is_pure_solid_state and main.                        *)
(***************************************************************************)
\* The distinct base disks of the devices the status text lists.
BaseDisks == {base_disk_for_block_device(d) : d \in Range(parse_devices(text))}

FetchFails == beh.rc # 0 \/ beh.output = BadBytes

\* C1: when the fetch succeeds and every base disk classifies, the pool check
\* returns true iff no distinct base disk of the parsed list is rotational;
\* an empty list gives true, one rotational disk among others gives false.
C1_TrueIffNoneRotational ==
    pc = "print" =>
        /\ ssd_only \in {"True", "False"}
        /\ ssd_only = "True" <=>
              \A d \in BaseDisks : is_rotational(d, 0) = "False"
        /\ devices = <<>> => ssd_only = "True"
        /\ (\E d \in BaseDisks : is_rotational(d, 0) = "True")
              => ssd_only = "False"

\* One rotational disk beside a solid-state one: false.
C1_Witness ==
    /\ pc = "print"
    /\ ssd_only = "False"
    /\ Cardinality(Range(rotationals)) = 2

\* C2: if the fetch or any base disk's classification fails, no boolean is
\* returned (even after another disk was found rotational) and the program
\* exits with 1 having printed nothing to standard output; it exits with 0
\* only after printing the one line 'Pool contains only SSD: <True|False>'.
C2_AllOrNothing ==
    /\ exitcode = 1 => out = <<>> /\ Len(err) = 1 /\ ssd_only = "none"
    /\ exitcode = 0 =>
          /\ out \in {<<report("True")>>, <<report("False")>>}
          /\ err = <<>>
    /\ pc = "exit" => exitcode \in {0, 1}
    /\ pc = "exit"
          /\ (FetchFails \/ \E d \in BaseDisks :
                                is_rotational(d, 0) \notin {"True", "False"})
          => exitcode = 1 /\ ssd_only = "none"

\* A disk was classified as rotational, then another one failed.
C2_Witness ==
    /\ pc = "exit"
    /\ exitcode = 1
    /\ "True" \in Range(rotationals)

\* C8 as stated: with the status text and the file system unchanged, a
\* second run ends as the first did: the same boolean, or the same failure
\* for the same device, whatever the order of the base disks.
C8_SameOutcome ==
    run = 2 /\ pc = "exit" =>
        prev = [exitcode |-> exitcode, out |-> out, err |-> err]

\* C8 as amended: a second run prints the same boolean, or fails as the first
\* did; which disk's failure it reports may differ with the order.
C8_SameVerdict ==
    run = 2 /\ pc = "exit" => prev.exitcode = exitcode /\ prev.out = out

\* Both runs failed, each reporting another disk.
C8_Witness ==
    /\ run = 2
    /\ pc = "exit"
    /\ exitcode = 1
    /\ prev.err # err

(***************************************************************************)
(* The device-table grammar, line by line and field by field, as the       *)
(* specification words it.                                                 *)
(***************************************************************************)
Blank == {SP, TAB}

\* Every maximal run of tabs and spaces becomes one space.
RECURSIVE CollapseFrom(_, _)
CollapseFrom(l, i) ==
    IF i > Len(l) THEN <<>>
    ELSE IF l[i] \notin Blank THEN <<l[i]>> \o CollapseFrom(l, i + 1)
    ELSE IF i > 1 /\ l[i - 1] \in Blank THEN CollapseFrom(l, i + 1)
    ELSE <<SP>> \o CollapseFrom(l, i + 1)

GrammarCollapse(l) == CollapseFrom(l, 1)

\* The line without its leading and trailing whitespace.
GrammarTrim(l) ==
    LET solid == {i \in 1..Len(l) : l[i] \notin Whitespace}
    IN  IF solid = {} THEN <<>>
        ELSE SubSeq(l, CHOOSE i \in solid : \A j \in solid : i <= j,
                       CHOOSE i \in solid : \A j \in solid : j <= i)

IsNumber(f) == f # <<>> /\ \A i \in 1..Len(f) : f[i] \in Digits

IsDevicePath(f) ==
    /\ Len(f) >= Len(DEV)
    /\ SubSeq(f, 1, Len(DEV)) = DEV
    /\ \A i \in 1..Len(f) : f[i] \in PathChars

IsDeviceLine(fields) ==
    /\ Len(fields) = 5
    /\ IsDevicePath(fields[1])
    /\ \E k \in 1..Len(States) : fields[2] = States[k]
    /\ IsNumber(fields[3])
    /\ IsNumber(fields[4])
    /\ IsNumber(fields[5])

GrammarFields(l) == split(GrammarTrim(GrammarCollapse(l)), SP)

RECURSIVE GrammarPaths(_)
GrammarPaths(ls) ==
    IF ls = <<>> THEN <<>>
    ELSE (IF IsDeviceLine(GrammarFields(ls[1]))
              THEN <<GrammarFields(ls[1])[1]>> ELSE <<>>)
         \o GrammarPaths(Tail(ls))

\* C7: the parser returns exactly the path fields of the lines that, once
\* tab and space runs are collapsed and the line is trimmed, match the whole
\* device-line grammar, in line order with duplicates kept; other lines add
\* nothing.
C7_ParserExact ==
    pc = "parsed" => devices = GrammarPaths(split(text, NL))

\* A text of two lines laid out with tabs, of which one is a device line.
C7_Witness ==
    /\ pc = "parsed"
    /\ Len(split(text, NL)) = 2
    /\ \E i \in 1..Len(text) : text[i] = TAB
    /\ Len(devices) = 1

==========================================================================
